---- MODULE Spec2Model ----
(***************************************************************************)
(* asgiref.local.Local: a namespace whose attributes are scoped to the     *)
(* current contextvars context (thread_critical=False, guarded by an       *)
(* RLock) or to the current thread (thread_critical=True, a                *)
(* threading.local).                                                       *)
(*                                                                         *)
(* A dict object is identified by the context that created it: a context   *)
(* whose ContextVar is unbound gets a fresh empty dict from                *)
(* `self._data.get({})`, and only `_CVar.__setattr__` ever binds it. Until *)
(* it is bound a fresh dict is known to the call that created it alone     *)
(* (op[t].priv); the ones __getattr__/__delattr__ create are dropped.      *)
(***************************************************************************)
EXTENDS Integers, FiniteSets, Sequences, TLC

\* ------------------------------------------------------------ bounds
MaxThreads == 2
MaxCtx == 3
MaxVal == 1
CounterThreads == 2
CounterCycles == 2
MaxDepth == 1
MaxOverwritten == 1

\* Ordinary attribute names (none of the reserved instance field names, nor
\* "_data", the field of _CVar).
Keys == {"x"}
\* The names Local.__setattr__ stores on the instance itself.
Reserved == {"_local", "_storage", "_thread_critical", "_thread_lock"}
\* The instance fields Local.__init__ assigns ("_local" is not among them).
InitFields == {"_storage", "_thread_critical", "_thread_lock"}
\* Every name a dict may be asked for.
DictKeys == Keys \cup Reserved
Vals == 0..MaxVal
Absent == -1
\* History marks: the scope never bound the key itself / deleted it itself.
Never == Absent
Deleted == Absent - 1
NoThread == 0
Unbound == 0

Thread == 1..MaxThreads
Ctx == 1..MaxCtx

VARIABLES
    thread_critical,   \* Local._thread_critical, as `if` reads it
    fields,            \* per reserved name, the value a caller stored in the
                       \* instance field (Absent: as the constructor left it)
    storage,           \* Local._storage: which store the facade wraps
    thread_lock,       \* Local._thread_lock: [owner, count] of the RLock
    data,              \* _CVar._data: per context, the dict it is bound to
    heap,              \* the dict objects, by identity
    tlocal,            \* the threading.local: per thread, its attribute dict
    nctx,              \* number of contexts created so far
    parent,            \* per context, the context it was copied from
    cur,               \* per thread, the context it is running in
    pc,                \* per thread, position inside the current call
    op,                \* per thread, the call in progress
    stack,             \* per thread, its suspended calls, innermost first
    hist,              \* whether last, ownC and inh are recorded (SpecHist)
    last,              \* history: per thread, the value its scope's last call bound
    ownT,              \* history: per thread, what the thread itself bound
    ownC,              \* history: per context, what the context itself bound
    inh,               \* history: per context, the bindings seen at its fork
    cyc,               \* counter scenario: completed increment cycles
    tmp,               \* counter scenario: the value read, not yet written
    raced              \* counter scenario: a set fell inside another cycle

vars == <<hist, thread_critical, fields, storage, thread_lock, data, heap,
          tlocal, nctx, parent, cur, pc, op, stack, last, ownT, ownC, inh,
          cyc, tmp, raced>>

instVars == <<hist, thread_critical, fields, storage>>
ctxVars == <<nctx, parent, cur>>
counterVars == <<cyc, tmp, raced>>
histVars == <<ownT, ownC, inh>>

\* ------------------------------------------------------------ dicts
EmptyDict == [k \in DictKeys |-> Absent]

\* storage_object[key] = value
dict_setitem_dropped(m, key, value) == m
dict_setitem(m, key, value) == [m EXCEPT ![key] = value]

\* del storage_object[key]
dict_delitem_kept(m, key) == m
dict_delitem(m, key) == [m EXCEPT ![key] = Absent]

\* ------------------------------------------------------------ _CVar
MissingKey == "AttributeError"

\* self._data.get({}): the bound dict, or a fresh empty one
ContextVar_get_fresh(d, c) == c
ContextVar_get_shared(d, c) == IF d[c] = Unbound THEN 1 ELSE d[c]
ContextVar_get(d, c) == IF d[c] = Unbound THEN c ELSE d[c]

\* _CVar.__getattr__ on the loaded dict: the value, or AttributeError
CVar_getattr_keyerror(m, key) ==
    IF m[key] # Absent THEN [kind |-> "value", val |-> m[key]]
    ELSE [kind |-> "KeyError", val |-> Absent]
CVar_getattr(m, key) ==
    IF m[key] # Absent THEN [kind |-> "value", val |-> m[key]]
    ELSE [kind |-> MissingKey, val |-> Absent]

\* _CVar.__delattr__: what the failed `del` is turned into
CVar_delattr_error_raw == "KeyError"
CVar_delattr_error == MissingKey

\* threading.local attribute access on the calling thread's own dict
TLocal_getattr(m, key) ==
    IF m[key] # Absent THEN [kind |-> "value", val |-> m[key]]
    ELSE [kind |-> MissingKey, val |-> Absent]

\* ------------------------------------------------------------ Local
\* Local.__init__: the store chosen for the mode
Local_init_storage_always_tlocal(tc) == "threading.local"
Local_init_storage_always_cvar(tc) == "_CVar"
Local_init_storage(tc) == IF tc THEN "threading.local" ELSE "_CVar"

\* threading.RLock.acquire would not block
RLock_free_nonreentrant(l, t) == l.owner = NoThread
RLock_free_unguarded(l, t) == TRUE
RLock_free(l, t) == l.owner \in {NoThread, t}

RLock_acquire(l, t) == [owner |-> t, count |-> l.count + 1]
\* threading.RLock.release: one hold less, free when the last is given up
RLock_release_kept(l) == l
RLock_release_owner_kept(l) == [owner |-> l.owner, count |-> l.count - 1]
RLock_release(l) ==
    IF l.count = 1 THEN [owner |-> NoThread, count |-> 0]
    ELSE [owner |-> l.owner, count |-> l.count - 1]

\* `if self._thread_critical` in _lock_storage: whether the call takes the lock
LockPath_always(tc) == TRUE
LockPath(tc) == ~tc

\* A call in progress: what was asked (name, key, val), whether it took the
\* lock path, the dict object it loaded (so; fresh: created by get({}) and not
\* yet bound, its contents in priv), and its outcome (kind, ret).
NoOp == [name |-> "none", key |-> "x", val |-> Absent, after |-> Absent,
         locked |-> FALSE, so |-> Unbound, fresh |-> FALSE,
         priv |-> EmptyDict, kind |-> "none", ret |-> Absent]
\* The last call of a thread that was a set: its key and value, and (where
\* the scope is the thread) the context the thread ran in.
NoLast == [key |-> "x", val |-> Absent, ctx |-> 0]

\* The scope a call of thread t acts on: its thread, or its current context.
ScopeMap(t) ==
    IF storage = "threading.local" THEN tlocal[t]
    ELSE IF data[cur[t]] = Unbound THEN EmptyDict ELSE heap[data[cur[t]]]

\* What a get of key k in context c would find.
Lookup(c, k) == IF data[c] = Unbound THEN Absent ELSE heap[data[c]][k]

RECURSIVE IsAncestor(_, _)
IsAncestor(a, c) ==
    IF parent[c] = 0 THEN FALSE
    ELSE parent[c] = a \/ IsAncestor(a, parent[c])
Related(a, c) == a = c \/ IsAncestor(a, c) \/ IsAncestor(c, a)

\* ------------------------------------------------------------ initial state
Init ==
    /\ hist = FALSE
    /\ thread_critical \in BOOLEAN
    /\ fields = [n \in Reserved |-> Absent]
    /\ storage = Local_init_storage(thread_critical)
    /\ thread_lock = [owner |-> NoThread, count |-> 0]
    /\ data = [c \in Ctx |-> Unbound]
    /\ heap = [c \in Ctx |-> EmptyDict]
    /\ tlocal = [t \in Thread |-> EmptyDict]
    /\ nctx = 1
    /\ parent = [c \in Ctx |-> 0]
    /\ cur = [t \in Thread |-> IF t = 1 THEN 1 ELSE 0]
    /\ pc = [t \in Thread |-> "idle"]
    /\ op = [t \in Thread |-> NoOp]
    /\ stack = [t \in Thread |-> <<>>]
    /\ last = [t \in Thread |-> NoLast]
    /\ ownT = [t \in Thread |-> [k \in DictKeys |-> Never]]
    /\ ownC = [c \in Ctx |-> [k \in DictKeys |-> Never]]
    /\ inh = [c \in Ctx |-> EmptyDict]
    /\ cyc = <<>>
    /\ tmp = <<>>
    /\ raced = FALSE

\* ------------------------------------------------------------ history
\* The value this get follows: what the last call of t's scope set for the
\* same key, with no call of a related scope since.
After(t) == IF last[t].key = op[t].key THEN last[t].val ELSE Absent

\* Thread t, running in context cur[t], bound key to w itself (w = Deleted:
\* removed it). A thread whose context is related to cur[t] no longer has its
\* set "immediately followed" by what it does next.
Record(t, key, w) ==
    /\ last' = [u \in DOMAIN last |->
                  IF /\ hist /\ ~thread_critical /\ u # t /\ cur[u] # 0
                     /\ Related(cur[u], cur[t])
                  THEN NoLast ELSE last[u]]
    /\ ownT' = IF thread_critical
               THEN [ownT EXCEPT ![t][key] = IF w = Deleted THEN Never ELSE w]
               ELSE ownT
    /\ ownC' = IF hist /\ ~thread_critical
               THEN [ownC EXCEPT ![cur[t]][key] = w]
               ELSE ownC

\* The bindings context c itself set and has not itself overwritten or
\* deleted since: what C5 says a copy of c sees.
Inherited(c) ==
    IF hist THEN [k \in DictKeys |->
                    IF ownC[c][k] >= 0 THEN ownC[c][k] ELSE Absent]
    ELSE EmptyDict

\* Thread u holds a counter value it read and has not yet written back.
MidCycle(u) ==
    \/ op[u].name = "get" /\ pc[u] = "exit" /\ op[u].kind = "value"
    \/ tmp[u] # Absent /\ ~(op[u].name = "set" /\ pc[u] \in {"commit", "exit"})

\* ------------------------------------------------------------ the runtime
\* contextvars.copy_context() by thread t: a new context sharing t's bindings
copy_context(t) ==
    /\ pc[t] = "idle" /\ cur[t] # 0 /\ nctx < Cardinality(DOMAIN data)
    /\ nctx' = nctx + 1
    /\ data' = [data EXCEPT ![nctx + 1] = data[cur[t]]]
    /\ parent' = [parent EXCEPT ![nctx + 1] = cur[t]]
    /\ inh' = [inh EXCEPT ![nctx + 1] = Inherited(cur[t])]
    /\ UNCHANGED <<instVars, stack, thread_lock, heap, tlocal, cur, pc, op,
                   last, ownT, ownC, counterVars>>

\* Context.run / the event loop resuming a task: thread t enters context c
Context_run(t, c) ==
    /\ pc[t] = "idle" /\ cur[t] # 0 /\ c <= nctx /\ c # cur[t]
    /\ \A u \in DOMAIN cur : cur[u] # c
    /\ cur' = [cur EXCEPT ![t] = c]
    /\ last' = [last EXCEPT ![t] = IF thread_critical THEN @ ELSE NoLast]
    /\ UNCHANGED <<instVars, stack, thread_lock, data, heap, tlocal, nctx, parent,
                   pc, op, histVars, counterVars>>

\* threading.Thread(...).start() by t: thread u starts in a new empty context
Thread_start(t, u) ==
    /\ pc[t] = "idle" /\ cur[t] # 0 /\ cur[u] = 0
    /\ nctx < Cardinality(DOMAIN data)
    /\ nctx' = nctx + 1
    /\ cur' = [cur EXCEPT ![u] = nctx + 1]
    /\ UNCHANGED <<instVars, stack, thread_lock, data, heap, tlocal, parent, pc, op,
                   last, histVars, counterVars>>

\* A thread started inside copy_context() of t (what async_to_sync and
\* sync_to_async do): thread u starts in a copy of t's context
Thread_start_in_copy(t, u) ==
    /\ pc[t] = "idle" /\ cur[t] # 0 /\ cur[u] = 0
    /\ nctx < Cardinality(DOMAIN data)
    /\ nctx' = nctx + 1
    /\ data' = [data EXCEPT ![nctx + 1] = data[cur[t]]]
    /\ parent' = [parent EXCEPT ![nctx + 1] = cur[t]]
    /\ inh' = [inh EXCEPT ![nctx + 1] = Inherited(cur[t])]
    /\ cur' = [cur EXCEPT ![u] = nctx + 1]
    /\ UNCHANGED <<instVars, stack, thread_lock, heap, tlocal, pc, op,
                   last, ownT, ownC, counterVars>>

\* ------------------------------------------------------------ the calls
\* Python finds the name on the instance itself and never calls __getattr__.
HasField(name) ==
    \/ name \in InitFields
    \/ name \in Reserved /\ fields[name] # Absent

\* `key in ("_local", "_storage", "_thread_critical", "_thread_lock")`
IsReserved_short(key) == key \in InitFields
IsReserved(key) == key \in Reserved

\* What `with self._thread_lock:` raises when the field holds a plain value
\* (TypeError since Python 3.11, AttributeError before).
WithError == {"TypeError", MissingKey}

\* Thread t is inside the body of a call (between the yield of _lock_storage
\* and its exit).
InBody(t) == pc[t] \in {"load", "item", "commit", "tl", "raw", "exit"}

NewOp(name, key, value) ==
    [NoOp EXCEPT !.name = name, !.key = key, !.val = value,
                 !.locked = LockPath(thread_critical)]

\* `with self._lock_storage() as storage:` up to the choice of the branch
Call(t, o) ==
    IF o.locked /\ fields["_thread_lock"] # Absent
    THEN \E e \in WithError :
            /\ op' = [op EXCEPT ![t] = [o EXCEPT !.locked = FALSE, !.kind = e]]
            /\ pc' = [pc EXCEPT ![t] = "exit"]
    ELSE /\ op' = [op EXCEPT ![t] = o]
         /\ pc' = [pc EXCEPT ![t] = "enter"]

\* local.key
Local_getattr(t, key) ==
    /\ pc[t] = "idle" /\ cur[t] # 0
    /\ ~HasField(key)
    /\ Call(t, NewOp("get", key, Absent))
    /\ UNCHANGED <<instVars, stack, thread_lock, data, heap, tlocal, ctxVars,
                   last, histVars, counterVars>>

\* local.key = value
Local_setattr(t, key, value) ==
    /\ pc[t] = "idle" /\ cur[t] # 0
    /\ ~IsReserved(key)
    /\ Call(t, NewOp("set", key, value))
    /\ last' = [last EXCEPT ![t] = NoLast]
    /\ UNCHANGED <<instVars, stack, thread_lock, data, heap, tlocal, ctxVars,
                   histVars, counterVars>>

\* del local.key
Local_delattr(t, key) ==
    /\ pc[t] = "idle" /\ cur[t] # 0
    /\ Call(t, NewOp("del", key, Absent))
    /\ last' = [last EXCEPT ![t] = NoLast]
    /\ UNCHANGED <<instVars, stack, thread_lock, data, heap, tlocal, ctxVars,
                   histVars, counterVars>>

\* The flag `if self._thread_critical` reads after `local.name = value`
FlagAfter_any(name, value, tc) == value # 0
FlagAfter(name, value, tc) ==
    IF name = "_thread_critical" THEN value # 0 ELSE tc

\* local.name = value for a reserved name: super().__setattr__(name, value)
\* (the caller overwrites at most MaxOverwritten of the four fields)
Local_setattr_reserved(t, name, value) ==
    /\ pc[t] = "idle" /\ cur[t] # 0
    /\ IsReserved(name)
    /\ Cardinality({n \in Reserved : fields[n] # Absent} \cup {name})
           <= MaxOverwritten
    /\ fields' = [fields EXCEPT ![name] = value]
    /\ thread_critical' = FlagAfter(name, value, thread_critical)
    /\ storage' = IF name = "_storage" THEN "value" ELSE storage
    /\ UNCHANGED <<hist, thread_lock, data, heap, tlocal, ctxVars, pc, op,
                   stack, last, histVars, counterVars>>

\* local.name for a name found on the instance: the field, no __getattr__
Local_getattr_field(t, name) ==
    /\ pc[t] = "idle" /\ cur[t] # 0
    /\ HasField(name)
    /\ op' = [op EXCEPT ![t] = [NoOp EXCEPT !.name = "get", !.key = name,
                                            !.kind = "field",
                                            !.ret = fields[name]]]
    /\ pc' = [pc EXCEPT ![t] = "ret"]
    /\ UNCHANGED <<instVars, stack, thread_lock, data, heap, tlocal, ctxVars,
                   last, histVars, counterVars>>

\* the attribute lookup hands the field to the caller
Local_return(t) ==
    /\ pc[t] = "ret"
    /\ op' = [op EXCEPT ![t] = NoOp]
    /\ pc' = [pc EXCEPT ![t] = "idle"]
    /\ UNCHANGED <<instVars, stack, thread_lock, data, heap, tlocal, ctxVars,
                   last, histVars, counterVars>>

\* A call on the same instance made by thread t while it is inside a call:
\* code of the caller that runs there (a finalizer, a signal handler, the
\* __hash__ of a key). The interrupted call is resumed when this one exits.
Reenter(t, name, key, value) ==
    /\ InBody(t) /\ Len(stack[t]) < MaxDepth
    /\ name \in {"get", "set", "del"}
    /\ name = "get" => ~HasField(key)
    /\ name = "set" => ~IsReserved(key)
    /\ stack' = [stack EXCEPT ![t] = <<[pc |-> pc[t], op |-> op[t]]>> \o @]
    /\ Call(t, NewOp(name, key, IF name = "set" THEN value ELSE Absent))
    /\ UNCHANGED <<instVars, thread_lock, data, heap, tlocal, ctxVars,
                   last, histVars, counterVars>>

\* Local._lock_storage, up to the yield: take the lock unless thread_critical
lock_storage_enter(t) ==
    /\ pc[t] = "enter"
    /\ IF op[t].locked
       THEN /\ RLock_free(thread_lock, t)
            /\ thread_lock' = RLock_acquire(thread_lock, t)
       ELSE UNCHANGED thread_lock
    /\ pc' = [pc EXCEPT ![t] = IF storage = "_CVar" THEN "load"
                               ELSE IF storage = "threading.local" THEN "tl"
                               ELSE "raw"]
    /\ UNCHANGED <<instVars, stack, data, heap, tlocal, ctxVars, op, last,
                   histVars, counterVars>>

\* storage_object = self._data.get({})
CVar_load_copy(t) ==
    /\ pc[t] = "load"
    /\ op' = [op EXCEPT ![t].so = cur[t], ![t].fresh = TRUE,
                        ![t].priv = IF data[cur[t]] = Unbound THEN EmptyDict
                                    ELSE heap[data[cur[t]]]]
    /\ pc' = [pc EXCEPT ![t] = "item"]
    /\ UNCHANGED <<instVars, stack, thread_lock, data, heap, tlocal, ctxVars,
                   last, histVars, counterVars>>
CVar_load(t) ==
    /\ pc[t] = "load"
    /\ LET so == ContextVar_get(data, cur[t])
       IN op' = [op EXCEPT ![t].so = so, ![t].fresh = (so # data[cur[t]])]
    /\ pc' = [pc EXCEPT ![t] = "item"]
    /\ UNCHANGED <<instVars, stack, thread_lock, data, heap, tlocal, ctxVars,
                   last, histVars, counterVars>>

\* The contents of storage_object
Loaded(t) == IF op[t].fresh THEN op[t].priv ELSE heap[op[t].so]

\* _CVar.__getattr__: return storage_object[key], or raise AttributeError
CVar_getitem_writeback(t) ==
    /\ pc[t] = "item" /\ op[t].name = "get"
    /\ LET r == CVar_getattr(Loaded(t), op[t].key)
       IN op' = [op EXCEPT ![t].kind = r.kind, ![t].ret = r.val,
                           ![t].after = After(t)]
    /\ data' = [data EXCEPT ![cur[t]] = op[t].so]
    /\ heap' = IF op[t].fresh THEN [heap EXCEPT ![op[t].so] = op[t].priv]
               ELSE heap
    /\ pc' = [pc EXCEPT ![t] = "exit"]
    /\ UNCHANGED <<instVars, stack, thread_lock, tlocal, ctxVars,
                   last, histVars, counterVars>>
CVar_getitem(t) ==
    /\ pc[t] = "item" /\ op[t].name = "get"
    /\ LET r == CVar_getattr(Loaded(t), op[t].key)
       IN op' = [op EXCEPT ![t].kind = r.kind, ![t].ret = r.val,
                           ![t].after = After(t)]
    /\ pc' = [pc EXCEPT ![t] = "exit"]
    /\ UNCHANGED <<instVars, stack, thread_lock, data, heap, tlocal, ctxVars,
                   last, histVars, counterVars>>

\* storage_object is changed in place to m: the bound dict on the heap, the
\* fresh one where only this call holds it
StoreLoaded(t, m) ==
    /\ heap' = IF op[t].fresh THEN heap ELSE [heap EXCEPT ![op[t].so] = m]
    /\ op' = IF op[t].fresh THEN [op EXCEPT ![t].priv = m] ELSE op

\* _CVar.__setattr__: storage_object[key] = value
CVar_setitem(t) ==
    /\ pc[t] = "item" /\ op[t].name = "set"
    /\ StoreLoaded(t, dict_setitem(Loaded(t), op[t].key, op[t].val))
    /\ pc' = [pc EXCEPT ![t] = "commit"]
    /\ Record(t, op[t].key, op[t].val)
    /\ raced' = (raced \/ \E u \in DOMAIN cyc \ {t} : MidCycle(u))
    /\ UNCHANGED <<instVars, stack, thread_lock, data, tlocal, ctxVars, inh,
                   cyc, tmp>>

\* _CVar.__delattr__: del storage_object[key], or raise AttributeError
CVar_delitem(t) ==
    /\ pc[t] = "item" /\ op[t].name = "del"
    /\ IF Loaded(t)[op[t].key] # Absent
       THEN /\ StoreLoaded(t, dict_delitem(Loaded(t), op[t].key))
            /\ pc' = [pc EXCEPT ![t] = "commit"]
            /\ Record(t, op[t].key, Deleted)
       ELSE /\ op' = [op EXCEPT ![t].kind = CVar_delattr_error]
            /\ pc' = [pc EXCEPT ![t] = "exit"]
            /\ UNCHANGED <<heap, last, ownT, ownC>>
    /\ UNCHANGED <<instVars, stack, thread_lock, data, tlocal, ctxVars, inh,
                   counterVars>>

\* self._data.set(storage_object)
CVar_commit(t) ==
    /\ pc[t] = "commit"
    /\ data' = [data EXCEPT ![cur[t]] = op[t].so]
    /\ heap' = IF op[t].fresh THEN [heap EXCEPT ![op[t].so] = op[t].priv]
               ELSE heap
    /\ op' = [op EXCEPT ![t].kind = "ok", ![t].fresh = FALSE,
                        ![t].priv = EmptyDict]
    /\ pc' = [pc EXCEPT ![t] = "exit"]
    /\ UNCHANGED <<instVars, stack, thread_lock, tlocal, ctxVars, last,
                   histVars, counterVars>>

\* getattr(storage, key) on the threading.local
TLocal_get(t) ==
    /\ pc[t] = "tl" /\ op[t].name = "get"
    /\ LET r == TLocal_getattr(tlocal[t], op[t].key)
       IN op' = [op EXCEPT ![t].kind = r.kind, ![t].ret = r.val,
                           ![t].after = After(t)]
    /\ pc' = [pc EXCEPT ![t] = "exit"]
    /\ UNCHANGED <<instVars, stack, thread_lock, data, heap, tlocal, ctxVars,
                   last, histVars, counterVars>>

\* setattr(storage, key, value) on the threading.local
TLocal_set(t) ==
    /\ pc[t] = "tl" /\ op[t].name = "set"
    /\ tlocal' = [tlocal EXCEPT ![t] = dict_setitem(@, op[t].key, op[t].val)]
    /\ op' = [op EXCEPT ![t].kind = "ok"]
    /\ pc' = [pc EXCEPT ![t] = "exit"]
    /\ Record(t, op[t].key, op[t].val)
    /\ UNCHANGED <<instVars, stack, thread_lock, data, heap, ctxVars, inh,
                   counterVars>>

\* delattr(storage, key) on the threading.local: AttributeError if absent
TLocal_del(t) ==
    /\ pc[t] = "tl" /\ op[t].name = "del"
    /\ IF tlocal[t][op[t].key] # Absent
       THEN /\ tlocal' = [tlocal EXCEPT ![t] = dict_delitem(@, op[t].key)]
            /\ op' = [op EXCEPT ![t].kind = "ok"]
            /\ Record(t, op[t].key, Deleted)
       ELSE /\ op' = [op EXCEPT ![t].kind = MissingKey]
            /\ UNCHANGED <<tlocal, last, ownT, ownC>>
    /\ pc' = [pc EXCEPT ![t] = "exit"]
    /\ UNCHANGED <<instVars, stack, thread_lock, data, heap, ctxVars, inh,
                   counterVars>>

\* getattr / setattr / delattr(storage, key) where a caller stored a plain
\* value in _storage: it has no such attribute and takes none
Value_access(t) ==
    /\ pc[t] = "raw"
    /\ op' = [op EXCEPT ![t].kind = MissingKey]
    /\ pc' = [pc EXCEPT ![t] = "exit"]
    /\ UNCHANGED <<instVars, stack, thread_lock, data, heap, tlocal, ctxVars,
                   last, histVars, counterVars>>

\* Local._lock_storage after the yield: release the lock, return or raise to
\* the caller, or to the call this one interrupted
lock_storage_exit(t) ==
    /\ pc[t] = "exit"
    /\ thread_lock' = IF op[t].locked THEN RLock_release(thread_lock)
                      ELSE thread_lock
    /\ last' = [last EXCEPT ![t] =
                  IF hist /\ op[t].name = "set"
                  THEN [key |-> op[t].key, val |-> op[t].val,
                        ctx |-> IF thread_critical THEN cur[t] ELSE 0]
                  ELSE NoLast]
    /\ IF stack[t] = <<>>
       THEN /\ op' = [op EXCEPT ![t] = NoOp]
            /\ pc' = [pc EXCEPT ![t] = "idle"]
            /\ UNCHANGED stack
       ELSE /\ op' = [op EXCEPT ![t] = Head(stack[t]).op]
            /\ pc' = [pc EXCEPT ![t] = Head(stack[t]).pc]
            /\ stack' = [stack EXCEPT ![t] = Tail(@)]
    /\ tmp' = IF t \in DOMAIN tmp
              THEN [tmp EXCEPT ![t] = IF op[t].name = "get" THEN op[t].ret
                                      ELSE Absent]
              ELSE tmp
    /\ cyc' = IF t \in DOMAIN cyc /\ op[t].name = "set"
              THEN [cyc EXCEPT ![t] = @ + 1]
              ELSE cyc
    /\ UNCHANGED <<instVars, data, heap, tlocal, ctxVars, histVars, raced>>

Next ==
    \/ \E t \in Thread : copy_context(t)
    \/ \E t \in Thread, c \in Ctx : Context_run(t, c)
    \/ \E t, u \in Thread : Thread_start(t, u)
    \/ \E t, u \in Thread : Thread_start_in_copy(t, u)
    \/ \E t \in Thread, k \in Keys : Local_getattr(t, k)
    \/ \E t \in Thread, k \in Keys, v \in Vals : Local_setattr(t, k, v)
    \/ \E t \in Thread, k \in Keys : Local_delattr(t, k)
    \/ \E t \in Thread : lock_storage_enter(t)
    \/ \E t \in Thread : CVar_load(t)
    \/ \E t \in Thread : CVar_getitem(t)
    \/ \E t \in Thread : CVar_setitem(t)
    \/ \E t \in Thread : CVar_delitem(t)
    \/ \E t \in Thread : CVar_commit(t)
    \/ \E t \in Thread : TLocal_get(t)
    \/ \E t \in Thread : TLocal_set(t)
    \/ \E t \in Thread : TLocal_del(t)
    \/ \E t \in Thread : lock_storage_exit(t)

Spec == Init /\ [][Next]_vars

\* The same program with the histories of C4 and C5 recorded.
InitHist ==
    /\ hist = TRUE
    /\ thread_critical \in BOOLEAN
    /\ fields = [n \in Reserved |-> Absent]
    /\ storage = Local_init_storage(thread_critical)
    /\ thread_lock = [owner |-> NoThread, count |-> 0]
    /\ data = [c \in Ctx |-> Unbound]
    /\ heap = [c \in Ctx |-> EmptyDict]
    /\ tlocal = [t \in Thread |-> EmptyDict]
    /\ nctx = 1
    /\ parent = [c \in Ctx |-> 0]
    /\ cur = [t \in Thread |-> IF t = 1 THEN 1 ELSE 0]
    /\ pc = [t \in Thread |-> "idle"]
    /\ op = [t \in Thread |-> NoOp]
    /\ stack = [t \in Thread |-> <<>>]
    /\ last = [t \in Thread |-> NoLast]
    /\ ownT = [t \in Thread |-> [k \in DictKeys |-> Never]]
    /\ ownC = [c \in Ctx |-> [k \in DictKeys |-> Never]]
    /\ inh = [c \in Ctx |-> EmptyDict]
    /\ cyc = <<>>
    /\ tmp = <<>>
    /\ raced = FALSE

SpecHist == InitHist /\ [][Next]_vars

\* A step of thread t's call once it is past _lock_storage's entry.
Proceed(t) ==
    \/ CVar_load(t) \/ CVar_getitem(t) \/ CVar_setitem(t) \/ CVar_delitem(t)
    \/ CVar_commit(t)
    \/ TLocal_get(t) \/ TLocal_set(t) \/ TLocal_del(t)
    \/ Value_access(t)
    \/ lock_storage_exit(t)

\* ------------------------------------------------------------ running threads
\* Every thread is running: thread 1 in the first context, each other thread
\* in a copy of it that thread 1 made before any call on the instance.
InitStarted ==
    /\ hist = FALSE
    /\ thread_critical \in BOOLEAN
    /\ fields = [n \in Reserved |-> Absent]
    /\ storage = Local_init_storage(thread_critical)
    /\ thread_lock = [owner |-> NoThread, count |-> 0]
    /\ data = [c \in Ctx |-> Unbound]
    /\ heap = [c \in Ctx |-> EmptyDict]
    /\ tlocal = [t \in Thread |-> EmptyDict]
    /\ nctx = MaxThreads
    /\ parent = [c \in Ctx |-> IF c \in 2..MaxThreads THEN 1 ELSE 0]
    /\ cur = [t \in Thread |-> t]
    /\ pc = [t \in Thread |-> "idle"]
    /\ op = [t \in Thread |-> NoOp]
    /\ stack = [t \in Thread |-> <<>>]
    /\ last = [t \in Thread |-> NoLast]
    /\ ownT = [t \in Thread |-> [k \in DictKeys |-> Never]]
    /\ ownC = [c \in Ctx |-> [k \in DictKeys |-> Never]]
    /\ inh = [c \in Ctx |-> EmptyDict]
    /\ cyc = <<>>
    /\ tmp = <<>>
    /\ raced = FALSE

\* The calls of the running threads, and the calls made from inside a call.
NextReentrant ==
    \/ \E t \in Thread, k \in Keys : Local_getattr(t, k)
    \/ \E t \in Thread, k \in Keys, v \in Vals : Local_setattr(t, k, v)
    \/ \E t \in Thread, k \in Keys : Local_delattr(t, k)
    \/ \E t \in Thread, n \in {"get", "set", "del"}, k \in Keys, v \in Vals :
           Reenter(t, n, k, v)
    \/ \E t \in Thread : lock_storage_enter(t)
    \/ \E t \in Thread : CVar_load(t)
    \/ \E t \in Thread : CVar_getitem(t)
    \/ \E t \in Thread : CVar_setitem(t)
    \/ \E t \in Thread : CVar_delitem(t)
    \/ \E t \in Thread : CVar_commit(t)
    \/ \E t \in Thread : TLocal_get(t)
    \/ \E t \in Thread : TLocal_set(t)
    \/ \E t \in Thread : TLocal_del(t)
    \/ \E t \in Thread : lock_storage_exit(t)

SpecReentrant == InitStarted /\ [][NextReentrant]_vars

\* The calls of the running threads, one at a time per thread, under a fair
\* scheduler: a thread inside a call keeps running, and a thread waiting for
\* the lock gets it if the lock is free again and again.
NextLive ==
    \/ \E t \in Thread, k \in Keys : Local_getattr(t, k)
    \/ \E t \in Thread, k \in Keys, v \in Vals : Local_setattr(t, k, v)
    \/ \E t \in Thread, k \in Keys : Local_delattr(t, k)
    \/ \E t \in Thread : lock_storage_enter(t)
    \/ \E t \in Thread : CVar_load(t)
    \/ \E t \in Thread : CVar_getitem(t)
    \/ \E t \in Thread : CVar_setitem(t)
    \/ \E t \in Thread : CVar_delitem(t)
    \/ \E t \in Thread : CVar_commit(t)
    \/ \E t \in Thread : TLocal_get(t)
    \/ \E t \in Thread : TLocal_set(t)
    \/ \E t \in Thread : TLocal_del(t)
    \/ \E t \in Thread : lock_storage_exit(t)

Fairness ==
    \A t \in Thread :
        /\ WF_vars(Proceed(t))
        /\ SF_vars(lock_storage_enter(t))

SpecLive == InitStarted /\ [][NextLive]_vars /\ Fairness

\* The calls of the running threads with every name, the reserved ones
\* included: the caller stores plain values in the instance fields.
NextReserved ==
    \/ \E t \in Thread, k \in DictKeys : Local_getattr(t, k)
    \/ \E t \in Thread, k \in DictKeys : Local_getattr_field(t, k)
    \/ \E t \in Thread : Local_return(t)
    \/ \E t \in Thread, k \in DictKeys, v \in Vals : Local_setattr(t, k, v)
    \/ \E t \in Thread, k \in DictKeys, v \in Vals :
           Local_setattr_reserved(t, k, v)
    \/ \E t \in Thread, k \in DictKeys : Local_delattr(t, k)
    \/ \E t \in Thread : lock_storage_enter(t)
    \/ \E t \in Thread : CVar_load(t)
    \/ \E t \in Thread : CVar_getitem(t)
    \/ \E t \in Thread : CVar_setitem(t)
    \/ \E t \in Thread : CVar_delitem(t)
    \/ \E t \in Thread : CVar_commit(t)
    \/ \E t \in Thread : TLocal_get(t)
    \/ \E t \in Thread : TLocal_set(t)
    \/ \E t \in Thread : TLocal_del(t)
    \/ \E t \in Thread : Value_access(t)
    \/ \E t \in Thread : lock_storage_exit(t)

SpecReserved == InitStarted /\ [][NextReserved]_vars

\* ------------------------------------------------------------ the counter
\* One context set the counter to 0; CounterThreads threads, each running in
\* its own copy of that context, do CounterCycles times
\*     local.x = local.x + 1
\* which is a call of Local.__getattr__ and then one of Local.__setattr__.
CounterKey == "x"
CThread == 1..CounterThreads
CCtx == 1..(CounterThreads + 1)

InitCounter ==
    /\ hist = FALSE
    /\ thread_critical = FALSE
    /\ fields = [n \in Reserved |-> Absent]
    /\ storage = Local_init_storage(FALSE)
    /\ thread_lock = [owner |-> NoThread, count |-> 0]
    /\ data = [c \in CCtx |-> 1]
    /\ heap = [c \in CCtx |->
                [k \in DictKeys |->
                    IF c = 1 /\ k = CounterKey THEN 0 ELSE Absent]]
    /\ tlocal = [t \in CThread |-> EmptyDict]
    /\ nctx = CounterThreads + 1
    /\ parent = [c \in CCtx |-> IF c = 1 THEN 0 ELSE 1]
    /\ cur = [t \in CThread |-> t + 1]
    /\ pc = [t \in CThread |-> "idle"]
    /\ op = [t \in CThread |-> NoOp]
    /\ stack = [t \in CThread |-> <<>>]
    /\ last = [t \in CThread |-> NoLast]
    /\ ownT = [t \in CThread |-> [k \in DictKeys |-> Never]]
    /\ ownC = [c \in CCtx |-> [k \in DictKeys |-> Never]]
    /\ inh = [c \in CCtx |-> EmptyDict]
    /\ cyc = [t \in CThread |-> 0]
    /\ tmp = [t \in CThread |-> Absent]
    /\ raced = FALSE

\* the read half of `local.x = local.x + 1`
Counter_get(t) ==
    /\ cyc[t] < CounterCycles /\ tmp[t] = Absent
    /\ Local_getattr(t, CounterKey)

\* the write half of `local.x = local.x + 1`
Counter_set(t) ==
    /\ tmp[t] # Absent
    /\ Local_setattr(t, CounterKey, tmp[t] + 1)

NextCounter ==
    \/ \E t \in CThread : Counter_get(t)
    \/ \E t \in CThread : Counter_set(t)
    \/ \E t \in CThread : lock_storage_enter(t)
    \/ \E t \in CThread : CVar_load(t)
    \/ \E t \in CThread : CVar_getitem(t)
    \/ \E t \in CThread : CVar_setitem(t)
    \/ \E t \in CThread : CVar_commit(t)
    \/ \E t \in CThread : lock_storage_exit(t)

SpecCounter == InitCounter /\ [][NextCounter]_vars

CounterDone ==
    /\ DOMAIN cyc # {}
    /\ \A t \in DOMAIN cyc : cyc[t] = CounterCycles /\ pc[t] = "idle"

\* C1 as claimed: once every thread has finished its cycles, the counter that
\* each of them reads is CounterThreads * CounterCycles.
C1_NoLostUpdate ==
    CounterDone =>
        \A t \in DOMAIN cyc :
            Lookup(cur[t], CounterKey) = CounterThreads * CounterCycles

\* C1 as amended: each get and each set is atomic, a get-then-set cycle is
\* not. Once every thread has finished, the counter lies between 1 and
\* CounterThreads * CounterCycles, and it is CounterThreads * CounterCycles
\* when no thread's set fell between another thread's get and its set.
C1_SerialCyclesCount ==
    CounterDone =>
        \A t \in DOMAIN cyc :
            /\ Lookup(cur[t], CounterKey) >= 1
            /\ Lookup(cur[t], CounterKey) <= CounterThreads * CounterCycles
            /\ ~raced =>
                   Lookup(cur[t], CounterKey) = CounterThreads * CounterCycles

C1_Witness ==
    /\ CounterDone
    /\ ~raced
    /\ Lookup(cur[1], CounterKey) = CounterThreads * CounterCycles

\* ------------------------------------------------------------ the claims
\* This step is thread t performing the dictionary access of its call.
Access(t) == pc[t] \in {"item", "tl"} /\ pc'[t] # pc[t]

\* This step is thread t changing a mapping or binding its context variable.
Mutates(t) ==
    \/ Access(t) /\ op[t].name \in {"set", "del"}
    \/ pc[t] = "commit" /\ pc'[t] = "exit"

Started == {c \in DOMAIN data : c <= nctx}

\* Lookup in the state after the step.
LookupNext(c, k) == IF data'[c] = Unbound THEN Absent ELSE heap'[data'[c]][k]

\* C2 as claimed (thread_critical=False): a set or delete in one context
\* never changes what a context unrelated to it reads, and two unrelated
\* contexts that last set the same key to different values each read back
\* their own.
C2_UnrelatedIsolated ==
    /\ [][~thread_critical =>
            \A t \in DOMAIN pc : Mutates(t) =>
                \A c \in Started : ~Related(cur[t], c) =>
                    \A k \in Keys : LookupNext(c, k) = Lookup(c, k)]_vars
    /\ [](~thread_critical /\ (\A t \in DOMAIN pc : pc[t] = "idle") =>
            \A a, c \in Started : \A k \in Keys :
                (/\ ~Related(a, c)
                 /\ ownC[a][k] >= 0 /\ ownC[c][k] >= 0
                 /\ ownC[a][k] # ownC[c][k]) => Lookup(a, k) = ownC[a][k])

\* C3 (thread_critical=True): a get on thread B returns exactly what B itself
\* bound: a value only if B set it (and has not deleted it since), and
\* otherwise it fails with MissingKey, whatever other threads bound and
\* whatever context B runs in.
C3_ThreadIsolation ==
    thread_critical =>
        \A t \in DOMAIN pc :
            (pc[t] = "exit" /\ op[t].name = "get") =>
                IF ownT[t][op[t].key] = Never
                THEN op[t].kind = MissingKey
                ELSE op[t].kind = "value" /\ op[t].ret = ownT[t][op[t].key]

\* Thread 1 bound x, thread 2 runs in a copy of a context, and its get fails.
C3_Witness ==
    /\ thread_critical
    /\ ownT[1]["x"] >= 0
    /\ cur[2] # 0 /\ parent[cur[2]] # 0
    /\ pc[2] = "exit" /\ op[2].name = "get" /\ op[2].kind = MissingKey

\* C4 as claimed: a get of k that immediately follows set(k, v) of the same
\* scope (no call of that scope or of a related scope in between) returns v.
C4_SetThenGet ==
    \A t \in DOMAIN pc :
        (pc[t] = "exit" /\ op[t].name = "get" /\ op[t].after # Absent) =>
            op[t].kind = "value" /\ op[t].ret = op[t].after

\* C5 as claimed (thread_critical=False): a context copied from C1 reads,
\* for every key C1 had set at the copy, a value C1 set (the one at the copy,
\* or the one C1 set last), for as long as the copy has not itself set or
\* deleted that key.
C5_ForkSeesParent ==
    ~thread_critical =>
        \A c \in Started : \A k \in Keys :
            (parent[c] # 0 /\ inh[c][k] # Absent /\ ownC[c][k] = Never) =>
                \/ Lookup(c, k) = inh[c][k]
                \/ ownC[parent[c]][k] >= 0 /\ Lookup(c, k) = ownC[parent[c]][k]

\* The outcome a get of key has on mapping m: [kind, val].
Found(m, key) ==
    IF m[key] = Absent THEN [kind |-> MissingKey, val |-> Absent]
    ELSE [kind |-> "value", val |-> m[key]]

\* This step starts thread u in a new context.
Starts(u) == cur[u] = 0 /\ cur'[u] # 0

\* C6 (thread_critical=False): a thread started in a copy of A's context
\* starts with every binding of A's context and a thread started without a
\* copy starts with none; what a get returns is what the mapping of the
\* thread's context holds; and no context outside the family of a context
\* that started empty ever changes what that context reads.
C6_CopiedThreadSees ==
    [][~thread_critical =>
        \A u \in DOMAIN pc :
            /\ (Starts(u) /\ parent'[cur'[u]] # 0) =>
                   \A k \in Keys :
                       LookupNext(cur'[u], k) = Lookup(parent'[cur'[u]], k)
            /\ (Starts(u) /\ parent'[cur'[u]] = 0) =>
                   \A k \in Keys : LookupNext(cur'[u], k) = Absent
            /\ (Access(u) /\ op[u].name = "get") =>
                   /\ op'[u].kind = Found(ScopeMap(u), op[u].key).kind
                   /\ op'[u].ret = Lookup(cur[u], op[u].key)
            /\ Mutates(u) =>
                   \A c \in Started :
                       (parent[c] = 0 /\ c # cur[u] /\ ~IsAncestor(c, cur[u])) =>
                           \A k \in Keys : LookupNext(c, k) = Lookup(c, k)]_vars

\* Thread 2, in a copy of a context that had bound x, gets x from the
\* mapping it inherited.
C6_Witness ==
    /\ ~thread_critical
    /\ cur[2] # 0 /\ parent[cur[2]] # 0
    /\ data[cur[2]] # Unbound /\ data[cur[2]] # cur[2]
    /\ pc[2] = "exit" /\ op[2].name = "get" /\ op[2].kind = "value"

\* C7: a get fails with MissingKey exactly when its key has no binding in the
\* scope of the call (the thread's own mapping in critical mode, the mapping
\* of the current context, or none, in non-critical mode), and otherwise
\* returns the bound value.
C7_GetMissingKey ==
    \A t \in DOMAIN pc :
        (pc[t] = "exit" /\ op[t].name = "get") =>
            /\ op[t].kind = Found(ScopeMap(t), op[t].key).kind
            /\ op[t].ret = Found(ScopeMap(t), op[t].key).val

\* The first get in a context whose context variable was never bound.
C7_Witness ==
    \E t \in DOMAIN pc :
        /\ ~thread_critical /\ cur[t] # 0 /\ data[cur[t]] = Unbound
        /\ pc[t] = "exit" /\ op[t].name = "get" /\ op[t].kind = MissingKey

\* C8: a delete of a key that has no binding in the scope of the call fails,
\* with the error kind a get of an unset key has, and changes no mapping.
C8_DeleteMissingKey ==
    [][\A t \in DOMAIN pc :
          (Access(t) /\ op[t].name = "del" /\ ScopeMap(t)[op[t].key] = Absent) =>
              /\ pc'[t] = "exit"
              /\ op'[t].kind = MissingKey
              /\ op'[t].kind = CVar_getattr(EmptyDict, op[t].key).kind
              /\ op'[t].kind = TLocal_getattr(EmptyDict, op[t].key).kind
              /\ heap' = heap /\ tlocal' = tlocal /\ data' = data]_vars

C8_Witness ==
    \E t \in DOMAIN pc :
        /\ ~thread_critical
        /\ pc[t] = "exit" /\ op[t].name = "del" /\ op[t].kind = MissingKey

\* C9: a successful delete leaves its key without a binding in the scope, and
\* a key without a binding in a scope gets one only by a set of that scope
\* or, in non-critical mode, of a context bound to the same mapping.
C9_DeleteThenMissing ==
    [][/\ \A t \in DOMAIN pc :
            (Access(t) /\ op[t].name = "del"
                       /\ ScopeMap(t)[op[t].key] # Absent) =>
                /\ ScopeMap(t)'[op[t].key] = Absent
                /\ op'[t].kind # MissingKey
       /\ \A c \in Started : \A k \in Keys :
            (Lookup(c, k) = Absent /\ LookupNext(c, k) # Absent) =>
                \E t \in DOMAIN pc :
                    /\ op[t].name = "set" /\ op[t].key = k /\ Mutates(t)
                    /\ cur[t] = c \/ (data[c] # Unbound /\ data[cur[t]] = data[c])
       /\ \A u \in DOMAIN tlocal : \A k \in Keys :
            (tlocal[u][k] = Absent /\ tlocal'[u][k] # Absent) =>
                op[u].name = "set" /\ op[u].key = k /\ Access(u)]_vars

\* A copied context has deleted a binding it inherited.
C9_Witness ==
    \E t \in DOMAIN pc :
        /\ ~thread_critical /\ cur[t] # 0 /\ parent[cur[t]] # 0
        /\ pc[t] = "exit" /\ op[t].name = "del" /\ op[t].kind = "ok"
        /\ Lookup(cur[t], op[t].key) = Absent

\* C10 (thread_critical=False): a thread inside the body of a get, set or
\* delete holds the instance's lock, so no two threads are inside at once.
C10_MutualExclusion ==
    ~thread_critical =>
        /\ \A t \in DOMAIN pc :
               InBody(t) => thread_lock.owner = t /\ thread_lock.count >= 1
        /\ \A t, u \in DOMAIN pc : (InBody(t) /\ InBody(u)) => t = u

\* One thread is mutating the mapping while the other waits for the lock.
C10_Witness ==
    /\ ~thread_critical
    /\ pc[1] = "item" /\ op[1].name = "set"
    /\ pc[2] = "enter"

\* The holds thread t has on the lock: one for each of its calls, interrupted
\* or running, that took the lock path and is inside its body.
Held(t) ==
    (IF InBody(t) /\ op[t].locked THEN 1 ELSE 0)
    + Cardinality({i \in 1..Len(stack[t]) : stack[t][i].op.locked})

\* C11 (thread_critical=False): the lock's hold count is the number of calls
\* of its owner that are inside their body, whether the calls before them
\* returned or failed: every exit gives back exactly the hold its call took,
\* and when no thread is inside a call the lock is free.
C11_LockReleased ==
    ~thread_critical =>
        /\ \A t \in DOMAIN pc : Held(t) > 0 => thread_lock.owner = t
        /\ thread_lock.owner # NoThread =>
               thread_lock.count = Held(thread_lock.owner)
        /\ (\A t \in DOMAIN pc : Held(t) = 0) =>
               thread_lock = [owner |-> NoThread, count |-> 0]

\* A delete made from inside a call has failed and is about to give back the
\* second hold, while the other thread waits for the lock.
C11_Witness ==
    /\ ~thread_critical
    /\ pc[1] = "exit" /\ op[1].name = "del" /\ op[1].kind = MissingKey
    /\ stack[1] # <<>> /\ thread_lock.count = Len(stack[1]) + 1
    /\ pc[2] = "enter"

\* C12 (thread_critical=False): a thread that made a call from inside a call
\* owns the lock throughout, once for each interrupted call; its nested call
\* is never kept waiting at the lock, and it always has a step to take, up
\* to the exit of the outermost call.
C12_Reentrant ==
    ~thread_critical =>
        \A t \in DOMAIN pc : stack[t] # <<>> =>
            /\ thread_lock.owner = t
            /\ thread_lock.count >= Len(stack[t])
            /\ \A i \in 1..Len(stack[t]) : stack[t][i].op.locked
            /\ pc[t] = "enter" => ENABLED lock_storage_enter(t)
            /\ ENABLED (lock_storage_enter(t) \/ Proceed(t))

\* Thread 1 is inside a set made from inside its get, holding the lock twice,
\* and thread 2 waits.
C12_Witness ==
    /\ ~thread_critical
    /\ stack[1] # <<>> /\ Head(stack[1]).op.name = "get"
    /\ pc[1] = "commit" /\ op[1].name = "set"
    /\ thread_lock = [owner |-> 1, count |-> Len(stack[1]) + 1]
    /\ pc[2] = "enter"

Mode == <<thread_critical, storage>>

\* C14 as claimed: no call, whatever its key, changes the mode the instance
\* was constructed with.
C14_ModeFixed == [][Mode' = Mode]_vars

\* C14 as amended: the mode is the constructed one (the store that goes with
\* the flag) for as long as no caller has set "_thread_critical" or
\* "_storage"; no step of a get, of a delete or of a set of another key
\* changes it; and a set of one of these two names, which overwrites the
\* instance field, is the only step that does.
C14_ModeFixedOrdinary ==
    /\ []((fields["_thread_critical"] = Absent /\ fields["_storage"] = Absent)
            => storage = Local_init_storage(thread_critical))
    /\ [][(\E t \in DOMAIN pc : pc'[t] # pc[t]) => Mode' = Mode]_vars
    /\ [][Mode' # Mode =>
            \E n \in {"_thread_critical", "_storage"} :
                fields'[n] # fields[n]]_vars

\* The instance was constructed with thread_critical=False, a caller has set
\* _thread_critical to a true value, and thread 1 changes the mapping of its
\* context without the lock.
C14_Witness ==
    /\ storage = "_CVar" /\ thread_critical
    /\ fields["_thread_critical"] # Absent
    /\ pc[1] = "item" /\ op[1].name = "set" /\ ~op[1].locked
    /\ thread_lock.owner = NoThread

\* This step creates context c as a copy of another context.
Forks(c) == nctx' = c /\ nctx = c - 1 /\ parent'[c] # 0

C16_NoLockCritical ==
    /\ [][thread_critical => thread_lock' = thread_lock]_vars
    /\ [](thread_critical =>
            /\ thread_lock = [owner |-> NoThread, count |-> 0]
            /\ \A t \in DOMAIN pc :
                   /\ pc[t] # "idle" => ~op[t].locked
                   /\ pc[t] = "enter" => ENABLED lock_storage_enter(t)
                   /\ InBody(t) => ENABLED Proceed(t))

\* Thread 2 has completed the body of its set while thread 1 is in the middle
\* of its own.
C16_Witness ==
    /\ thread_critical
    /\ pc[1] = "tl" /\ op[1].name = "set"
    /\ pc[2] = "exit" /\ op[2].name = "set" /\ op[2].kind = "ok"
    /\ thread_lock.owner = NoThread

\* This step is the dictionary access of a delete of thread t that succeeds.
Removes(t) ==
    Access(t) /\ op[t].name = "del" /\ ScopeMap(t)[op[t].key] # Absent

\* C17: no step of a get, successful or failed, and no step of a delete that
\* fails changes a mapping or the binding of a context variable: all
\* bindings stay as they were, and a context that was unbound is unbound
\* after the call.
C17_FailureChangesNothing ==
    [][\A t \in DOMAIN pc :
          (/\ pc'[t] # pc[t]
           /\ \/ op[t].name = "get"
              \/ op[t].name = "del" /\ ~Removes(t) /\ pc[t] # "commit") =>
              /\ heap' = heap /\ tlocal' = tlocal /\ data' = data
              /\ (Access(t) /\ op[t].name = "del") =>
                     op'[t].kind = MissingKey /\ pc'[t] = "exit"]_vars

\* A delete has failed in a context whose context variable was never bound,
\* and it still is not.
C17_Witness ==
    \E t \in DOMAIN pc :
        /\ ~thread_critical /\ cur[t] # 0 /\ data[cur[t]] = Unbound
        /\ heap[cur[t]] = EmptyDict
        /\ pc[t] = "exit" /\ op[t].name = "del" /\ op[t].kind = MissingKey

\* This step is thread t binding the context variable of a context in which
\* it was unbound: the end of the first set in that context.
FirstSet(t) == pc[t] = "commit" /\ pc'[t] = "exit" /\ data[cur[t]] = Unbound

\* C18 (thread_critical=False): the first set in an unbound context binds it
\* to a dict object no other context is bound to, holding the new binding,
\* and changes what no other context reads; a context is only ever bound to
\* the dict it created itself or to one an ancestor created, so neither its
\* parent nor the other copies of the parent read it; a set or delete changes
\* only what the contexts bound to the same object read; and a copy made of
\* the writing context afterwards reads what that context reads.
C18_FirstSetFresh ==
    /\ [][~thread_critical =>
            \A t \in DOMAIN pc :
                /\ FirstSet(t) =>
                       /\ \A d \in Started \ {cur[t]} : data[d] # data'[cur[t]]
                       /\ LookupNext(cur[t], op[t].key) = op[t].val
                       /\ \A d \in Started \ {cur[t]} : \A k \in Keys :
                              LookupNext(d, k) = Lookup(d, k)
                /\ Mutates(t) =>
                       \A d \in Started \ {cur[t]} :
                           (data[d] = Unbound \/ data[d] # op[t].so) =>
                               \A k \in Keys : LookupNext(d, k) = Lookup(d, k)]_vars
    /\ [][~thread_critical =>
            \A c \in DOMAIN data : Forks(c) =>
                /\ data'[c] = data[parent'[c]]
                /\ \A k \in Keys : LookupNext(c, k) = Lookup(parent'[c], k)]_vars
    /\ [](~thread_critical =>
            \A c \in Started :
                data[c] = Unbound \/ data[c] = c \/ IsAncestor(data[c], c))

\* Context 2, a copy of the unbound context 1, has set x; context 1 is still
\* unbound and reads nothing, and thread 2, in a copy made of context 2
\* afterwards, gets the value.
C18_Witness ==
    /\ ~thread_critical
    /\ nctx >= 3 /\ parent[2] = 1 /\ parent[3] = 2
    /\ data[1] = Unbound /\ data[2] = 2 /\ data[3] = 2
    /\ Lookup(1, "x") = Absent
    /\ cur[2] = 3 /\ pc[2] = "exit" /\ op[2].name = "get"
    /\ op[2].kind = "value" /\ op[2].ret = Lookup(2, "x")

\* C19 (thread_critical=True): no context variable is ever bound; a get
\* returns what the calling thread's own mapping holds, a set binds there,
\* whatever context the thread runs in; and creating a context or switching
\* to another one changes no binding.
C19_ContextsIgnored ==
    /\ [](thread_critical =>
            /\ \A c \in DOMAIN data : data[c] = Unbound
            /\ \A t \in DOMAIN pc :
                   (pc[t] = "exit" /\ op[t].name = "get") =>
                       /\ op[t].kind = Found(tlocal[t], op[t].key).kind
                       /\ op[t].ret = Found(tlocal[t], op[t].key).val)
    /\ [][thread_critical =>
            /\ ctxVars' # ctxVars => tlocal' = tlocal
            /\ \A t \in DOMAIN pc :
                   (Access(t) /\ op[t].name = "set") =>
                       /\ tlocal'[t][op[t].key] = op[t].val
                       /\ \A u \in DOMAIN pc \ {t} : tlocal'[u] = tlocal[u]]_vars

\* Thread 1 gets the value that its last call before, a set, bound while the
\* thread ran in a context unrelated to the one it runs in now.
C19_Witness ==
    /\ thread_critical
    /\ pc[1] = "exit" /\ op[1].name = "get" /\ op[1].kind = "value"
    /\ last[1].key = op[1].key /\ last[1].val = op[1].ret
    /\ last[1].ctx # 0 /\ ~Related(last[1].ctx, cur[1])

\* C20: a step that overwrites an instance field changes neither the lock nor
\* a mapping nor a binding nor any call in progress; no set of a reserved
\* name ever reaches _lock_storage, and no mapping ever binds a reserved
\* name; a get of a name found on the instance returns the field as it is,
\* on every thread and in every context, without _lock_storage; and no step
\* of a call that goes through _lock_storage, a set of another key included,
\* changes an instance field.
C20_ReservedBypass ==
    /\ [][fields' # fields =>
            /\ thread_lock' = thread_lock
            /\ heap' = heap /\ tlocal' = tlocal /\ data' = data
            /\ pc' = pc /\ op' = op]_vars
    /\ [](/\ \A t \in DOMAIN pc : op[t].name = "set" => op[t].key \notin Reserved
          /\ \A n \in Reserved :
                /\ \A c \in DOMAIN heap : heap[c][n] = Absent
                /\ \A t \in DOMAIN tlocal : tlocal[t][n] = Absent)
    /\ [][\A t \in DOMAIN pc :
            /\ (pc[t] = "idle" /\ pc'[t] = "ret") =>
                   /\ op'[t].key \in Reserved /\ op'[t].ret = fields[op'[t].key]
                   /\ thread_lock' = thread_lock
            /\ (pc[t] = "idle" /\ pc'[t] \in {"enter", "exit"}
                               /\ op'[t].name = "get") =>
                   (op'[t].key \in Reserved => fields[op'[t].key] = Absent)
            /\ pc'[t] # pc[t] =>
                   fields' = fields /\ Mode' = Mode]_vars

\* Thread 2, in its own context, reads the value a caller stored in _local
\* while thread 1 is inside a set and holds the lock.
C20_Witness ==
    /\ ~thread_critical
    /\ fields["_local"] # Absent
    /\ pc[2] = "ret" /\ op[2].key = "_local" /\ op[2].ret = fields["_local"]
    /\ cur[2] # cur[1]
    /\ pc[1] = "item" /\ op[1].name = "set" /\ thread_lock.owner = 1

====
